---------------------------- MODULE Spec2Model ----------------------------
(***************************************************************************)
(* A model of the NEAT core of mxjoly/neat-python: the innovation registry *)
(* (connection_history.py), the neuron (node.py) and, as described by the  *)
(* design document and the tests, the population's culling and             *)
(* reproduction phases.                                                    *)
(*                                                                         *)
(* The module holds several specifications over one set of variables; each *)
(* specification drives one part of the program and leaves the variables   *)
(* of the other parts at their initial values.                             *)
(*   SpecMatches    ConnectionHistory.matches on drawn inputs              *)
(*   SpecRegistry   genomes minting / reusing innovation numbers           *)
(*   SpecSnapshot   entries built from lists their callers go on changing  *)
(*   SpecNode       Node.engage and Node.mutate on a two-node network      *)
(*   SpecConnected  Node.is_connected_to on drawn networks                 *)
(*   SpecFeed       engagement passes over drawn networks                  *)
(*   SpecPopulation species culling and reproduction                       *)
(***************************************************************************)
EXTENDS Integers, Sequences, FiniteSets, TLC

VARIABLES
    innovation_history, \* list[ConnectionHistory]: the registry
    genomes,            \* genome -> genome.genes (list of connection genes)
    next_innovation_nb, \* the global innovation counter
    events,             \* history of innovation events (lookups with their result)
    last_call,          \* the last call of matches: its arguments and its result
    lists,              \* the list objects callers and entries hold, by reference
    node,               \* Node object -> its fields
    config,             \* the NeatConfig entries Node.mutate reads
    pass,               \* the engagements since the accumulators were last reset
    last_op,            \* the last operation on a node: its arguments and pre-state
    steps,              \* operations made so far (bounds the exploration)
    population          \* the Population: its genomes, species and generation

histVars ==
    <<innovation_history, genomes, next_innovation_nb, events, last_call, lists>>

nodeVars == <<node, config, pass, last_op, steps>>

vars == <<histVars, nodeVars, population>>

None == [op |-> "none"]

(* The parts a specification does not drive: an empty registry, no nodes. *)
HistIdle ==
    /\ innovation_history = <<>>
    /\ genomes = <<>>
    /\ next_innovation_nb = 1
    /\ events = {}
    /\ last_call = None
    /\ lists = <<>>

NodeIdle ==
    /\ node = <<>>
    /\ config = None
    /\ pass = None
    /\ last_op = None
    /\ steps = 0

PopIdle == population = None

-----------------------------------------------------------------------------
(* Bounds *)

MaxInnov == 2       \* innovation numbers drawn for matches: 1..MaxInnov
MaxLen == 2         \* longest gene list / stored list drawn for matches
MaxGenes == 2       \* structural mutations per genome in SpecRegistry
MaxSteps == 3       \* operations on nodes in SpecNode
MaxBias == 1        \* bias bounds are drawn from -MaxBias..MaxBias
MaxDelta == 2       \* Gaussian steps are drawn from -MaxDelta..MaxDelta
MaxConns == 2       \* connection genes of a drawn network
MaxSpecies == 3     \* species of a drawn population
MaxPop == 3         \* largest population_size drawn
MaxGeneration == 2  \* generations reproduced

Genomes == {1, 2}          \* genomes of the population
NodeIds == {1, 2, 3}       \* node ids

-----------------------------------------------------------------------------
(* Helpers on sequences *)

Range(s) == {s[i] : i \in 1..Len(s)}

SeqsUpTo(S, n) == UNION {[1..k -> S] : k \in 0..n}

-----------------------------------------------------------------------------
(* Nodes as the registry sees them: a Node object (its identity) and its   *)
(* id field.  Every genome owns its own Node objects; the same id names    *)
(* "the same" node in different genomes.                                   *)

NodeOf(g, i) == [obj |-> <<g, i>>, id |-> i]

(* The nodes drawn for matches: two objects with id 1 and one with id 2. *)
NodeObjs == {NodeOf(1, 1), NodeOf(2, 1), NodeOf(1, 2)}

(* ConnectionGene(from_node, to_node, weight, innovation_nb, enabled) *)
ConnectionGene(from_node, to_node, weight, innovation_nb, enabled) ==
    [from_node |-> from_node, to_node |-> to_node, weight |-> weight,
     innovation_nb |-> innovation_nb, enabled |-> enabled]

(* ConnectionHistory.__init__: the entry keeps the node objects, the number *)
(* and a copy of the list of innovation numbers.                            *)
ConnectionHistory(from_node, to_node, innovation_nb, innovation_nbs) ==
    [from_node |-> from_node, to_node |-> to_node,
     innovation_nb |-> innovation_nb,
     innovation_nbs |-> [i \in 1..Len(innovation_nbs) |-> innovation_nbs[i]]]

(* x in list *)
InList(x, list) == \E j \in 1..Len(list) : list[j] = x

(* for g in genome.genes: if g.innovation_nb not in self.innovation_nbs:    *)
(*     return False;  return True                                           *)
RECURSIVE GenesLoop(_, _, _)
GenesLoop(genes, i, innovation_nbs) ==
    IF i > Len(genes) THEN TRUE
    ELSE IF ~InList(genes[i].innovation_nb, innovation_nbs) THEN FALSE
    ELSE GenesLoop(genes, i + 1, innovation_nbs)

(* Mutants of matches: the length test dropped; the endpoints compared as  *)
(* objects instead of by id.                                               *)
MatchesNoLength(self, genes, from_node, to_node) ==
    IF from_node.id = self.from_node.id /\ to_node.id = self.to_node.id
    THEN GenesLoop(genes, 1, self.innovation_nbs)
    ELSE FALSE

MatchesByObject(self, genes, from_node, to_node) ==
    IF Len(genes) = Len(self.innovation_nbs)
    THEN IF from_node = self.from_node /\ to_node = self.to_node
         THEN GenesLoop(genes, 1, self.innovation_nbs)
         ELSE FALSE
    ELSE FALSE

(* ConnectionHistory.matches(self, genome, from_node, to_node), with genes  *)
(* the genome's gene list.                                                  *)
Matches(self, genes, from_node, to_node) ==
    IF Len(genes) = Len(self.innovation_nbs)
    THEN IF from_node.id = self.from_node.id /\ to_node.id = self.to_node.id
         THEN GenesLoop(genes, 1, self.innovation_nbs)
         ELSE FALSE
    ELSE FALSE

-----------------------------------------------------------------------------
(* SpecMatches: matches as a function of its inputs.  The registry holds   *)
(* one entry with any endpoints and any stored list; the genomes hold any  *)
(* gene list; the call draws the genome and the candidate endpoints.       *)

InnovLists == SeqsUpTo(1..MaxInnov, MaxLen)

GenesOf(nbs) ==
    [i \in 1..Len(nbs) |->
        ConnectionGene(NodeOf(1, 1), NodeOf(1, 2), 1, nbs[i], TRUE)]

InitMatches ==
    /\ \E f \in NodeObjs, t \in NodeObjs, nbs \in InnovLists :
          innovation_history = <<ConnectionHistory(f, t, MaxInnov + 1, nbs)>>
    /\ \E nbs \in InnovLists : genomes = [g \in Genomes |-> GenesOf(nbs)]
    /\ next_innovation_nb = MaxInnov + 2
    /\ events = {}
    /\ last_call = None
    /\ lists = <<>>
    /\ NodeIdle
    /\ PopIdle

CallMatches(i, g, from_node, to_node) ==
    /\ last_call' = [op |-> "matches",
                     self |-> innovation_history[i],
                     genes |-> genomes[g],
                     from_node |-> from_node,
                     to_node |-> to_node,
                     result |-> Matches(innovation_history[i], genomes[g],
                                        from_node, to_node)]
    /\ UNCHANGED <<innovation_history, genomes, next_innovation_nb, events, lists>>
    /\ UNCHANGED <<nodeVars, population>>

NextMatches ==
    \E i \in 1..Len(innovation_history), g \in Genomes,
       f \in NodeObjs, t \in NodeObjs : CallMatches(i, g, f, t)

SpecMatches == InitMatches /\ [][NextMatches]_vars

-----------------------------------------------------------------------------
(* SpecRegistry: structural mutations.  A genome that adds a connection    *)
(* looks the registry up with matches, first entry first; it reuses the    *)
(* number of the entry that matches and otherwise mints the next number    *)
(* and appends an entry holding its current innovation numbers.            *)

InnovationNbs(genes) == [i \in 1..Len(genes) |-> genes[i].innovation_nb]

MatchingEntries(history, genes, from_node, to_node) ==
    {i \in 1..Len(history) : Matches(history[i], genes, from_node, to_node)}

FirstMatch(S) == CHOOSE i \in S : \A j \in S : i <= j

InitRegistry ==
    /\ innovation_history = <<>>
    /\ genomes = [g \in Genomes |-> <<>>]
    /\ next_innovation_nb = 1
    /\ events = {}
    /\ last_call = None
    /\ lists = <<>>
    /\ NodeIdle
    /\ PopIdle

Connected(genes, from_node, to_node) ==
    \E k \in 1..Len(genes) :
        genes[k].from_node = from_node /\ genes[k].to_node = to_node

GetInnovationNumber(g, from_node, to_node) ==
    LET genes == genomes[g]
        found == MatchingEntries(innovation_history, genes, from_node, to_node)
        nb    == IF found = {} THEN next_innovation_nb
                 ELSE innovation_history[FirstMatch(found)].innovation_nb
    IN  /\ IF found = {}
           THEN /\ innovation_history' =
                       Append(innovation_history,
                              ConnectionHistory(from_node, to_node, nb,
                                                InnovationNbs(genes)))
                /\ next_innovation_nb' = next_innovation_nb + 1
           ELSE UNCHANGED <<innovation_history, next_innovation_nb>>
        /\ genomes' = [genomes EXCEPT
                          ![g] = Append(genes, ConnectionGene(from_node, to_node,
                                                              1, nb, TRUE))]
        /\ events' = events \cup
                        {[from_id |-> from_node.id, to_id |-> to_node.id,
                          context |-> Range(InnovationNbs(genes)),
                          innovation_nb |-> nb]}
        /\ UNCHANGED <<last_call, lists>>
        /\ UNCHANGED <<nodeVars, population>>

AddConnection(g, i, j) ==
    /\ i # j
    /\ Len(genomes[g]) < MaxGenes
    /\ ~Connected(genomes[g], NodeOf(g, i), NodeOf(g, j))
    /\ GetInnovationNumber(g, NodeOf(g, i), NodeOf(g, j))

NextRegistry ==
    \E g \in Genomes, i \in NodeIds, j \in NodeIds : AddConnection(g, i, j)

SpecRegistry == InitRegistry /\ [][NextRegistry]_vars

-----------------------------------------------------------------------------
(* SpecSnapshot: entries and the lists they are built from.  Python lists  *)
(* are objects held by reference: lists maps a reference to the items of   *)
(* the list object, and in this specification an entry's innovation_nbs is *)
(* a reference.  A calling genome g keeps a list of innovation numbers,    *)
(* the object of reference g, which it passes to ConnectionHistory and     *)
(* goes on appending to and changing afterwards.                           *)

MaxEntries == 1     \* entries constructed in SpecSnapshot
MaxItems == 2       \* items of a caller's list in SpecSnapshot

Callers == {1}      \* the genomes that construct entries
Items == {1, 2}     \* the innovation numbers the callers' lists hold

(* Mutant of __init__: the entry keeps the list it is given.               *)
ConnectionHistoryAliasing(heap, from_node, to_node, innovation_nb, innovation_nbs) ==
    [heap |-> heap,
     self |-> [from_node |-> from_node, to_node |-> to_node,
               innovation_nb |-> innovation_nb,
               innovation_nbs |-> innovation_nbs]]

(* ConnectionHistory.__init__ on the heap: innovation_nbs.copy() is a new  *)
(* list object with the items of the argument.                             *)
ConnectionHistoryObject(heap, from_node, to_node, innovation_nb, innovation_nbs) ==
    [heap |-> Append(heap, heap[innovation_nbs]),
     self |-> [from_node |-> from_node, to_node |-> to_node,
               innovation_nb |-> innovation_nb,
               innovation_nbs |-> Len(heap) + 1]]

(* The entry as its methods read it: self.innovation_nbs followed to the   *)
(* list object.                                                            *)
EntryOf(heap, self) == [self EXCEPT !.innovation_nbs = heap[self.innovation_nbs]]

InitSnapshot ==
    /\ innovation_history = <<>>
    /\ genomes = [g \in Genomes |-> <<>>]
    /\ lists = [g \in Callers |-> <<>>]
    /\ next_innovation_nb = 1
    /\ events = {}
    /\ last_call = None
    /\ NodeIdle
    /\ PopIdle

(* The record of the last call of matches once another operation has been *)
(* made: its arguments and result are kept, the state it returned in is    *)
(* dropped.                                                                *)
Stale(call) ==
    IF call.op = "matches"
    THEN [call EXCEPT !.returned = FALSE, !.pre = None]
    ELSE call

(* ConnectionHistory(from_node, to_node, nb, innovation_nbs) by genome g,  *)
(* appended to the registry.                                               *)
NewEntry(g, to_node) ==
    /\ Len(innovation_history) < MaxEntries
    /\ LET new == ConnectionHistoryObject(lists, NodeOf(g, 1), to_node,
                                          next_innovation_nb, g)
       IN  /\ lists' = new.heap
           /\ innovation_history' = Append(innovation_history, new.self)
           /\ events' = events \cup
                           {[op |-> "init", i |-> Len(innovation_history) + 1,
                             arg |-> g, self |-> EntryOf(new.heap, new.self)]}
    /\ next_innovation_nb' = next_innovation_nb + 1
    /\ last_call' = Stale(last_call)
    /\ UNCHANGED genomes
    /\ UNCHANGED <<nodeVars, population>>

(* The genome gains a gene: its list of innovation numbers is appended to. *)
ListAppend(g, x) ==
    /\ Len(lists[g]) < MaxItems
    /\ lists' = [lists EXCEPT ![g] = Append(@, x)]
    /\ genomes' = [genomes EXCEPT
                      ![g] = Append(@, ConnectionGene(NodeOf(g, 1), NodeOf(g, 2),
                                                      1, x, TRUE))]
    /\ last_call' = Stale(last_call)
    /\ UNCHANGED <<innovation_history, next_innovation_nb, events>>
    /\ UNCHANGED <<nodeVars, population>>

(* innovation_nbs[k] = x on the caller's list.                             *)
ListSetItem(g, k, x) ==
    /\ k \in 1..Len(lists[g])
    /\ lists[g][k] # x
    /\ lists' = [lists EXCEPT ![g][k] = x]
    /\ last_call' = Stale(last_call)
    /\ UNCHANGED <<innovation_history, genomes, next_innovation_nb, events>>
    /\ UNCHANGED <<nodeVars, population>>

(* entry.matches(genome, from_node, to_node): no assignment to the entry,  *)
(* the genome or any list.                                                 *)
CallMatchesOnHeap(i, g, to_node) ==
    /\ last_call' = [op |-> "matches", i |-> i, genes |-> genomes[g],
                     from_node |-> NodeOf(g, 1), to_node |-> to_node,
                     result |-> Matches(EntryOf(lists, innovation_history[i]),
                                        genomes[g], NodeOf(g, 1), to_node),
                     returned |-> TRUE,
                     pre |-> [innovation_history |-> innovation_history,
                              lists |-> lists, genomes |-> genomes]]
    /\ UNCHANGED <<innovation_history, genomes, next_innovation_nb, lists, events>>
    /\ UNCHANGED <<nodeVars, population>>

NextSnapshot ==
    \/ \E g \in Callers : NewEntry(g, NodeOf(g, 2))
    \/ \E g \in Callers, x \in Items : ListAppend(g, x)
    \/ \E g \in Callers, k \in 1..MaxItems, x \in Items : ListSetItem(g, k, x)
    \/ \E i \in 1..Len(innovation_history), g \in Genomes, t \in NodeObjs :
          CallMatchesOnHeap(i, g, t)

SpecSnapshot == InitSnapshot /\ [][NextSnapshot]_vars

-----------------------------------------------------------------------------
(* Numbers.  The activation functions are external pure functions of which  *)
(* only the names are known, so a value is a linear form: an integer plus   *)
(* integer multiples of applications f(x) of a named activation function    *)
(* to a value.  t holds one triple <<coefficient, f, x>> per application,   *)
(* none with coefficient 0.                                                 *)

Num(k) == [c |-> k, t |-> {}]

(* activation(self.input_sum) *)
App(f, x) == [c |-> 0, t |-> {<<1, f, x>>}]

TermKeys(a) == {<<e[2], e[3]>> : e \in a.t}

Coef(a, k) ==
    IF \E e \in a.t : <<e[2], e[3]>> = k
    THEN (CHOOSE e \in a.t : <<e[2], e[3]>> = k)[1]
    ELSE 0

(* a + b *)
Add(a, b) ==
    [c |-> a.c + b.c,
     t |-> {<<Coef(a, k) + Coef(b, k), k[1], k[2]>> :
               k \in {x \in TermKeys(a) \cup TermKeys(b) :
                         Coef(a, x) + Coef(b, x) # 0}}]

(* w * a, w an integer *)
Scale(w, a) ==
    [c |-> w * a.c,
     t |-> IF w = 0 THEN {} ELSE {<<w * e[1], e[2], e[3]>> : e \in a.t}]

IsNum(a) == a.t = {}

-----------------------------------------------------------------------------
(* Node *)

(* The activation_function field holds a name (the ActivationFunctions      *)
(* string the constructor is given) or a callable of activation_functions.  *)
Str(name) == [kind |-> "str", name |-> name]
Fn(name) == [kind |-> "callable", name |-> name]

(* The list Node.mutate draws from. *)
ActivationNames ==
    {"step", "sigmoid", "tanh", "relu", "leaky_relu", "prelu", "elu",
     "softmax", "linear", "swish"}

(* Node.get_activation_function: the chain of comparisons with the names;  *)
(* anything else, a callable included, falls through to sigmoid.           *)
GetActivationFunction(activation_function) ==
    IF activation_function = Str("elu") THEN Fn("elu")
    ELSE IF activation_function = Str("leaky_relu") THEN Fn("leaky_relu")
    ELSE IF activation_function = Str("linear") THEN Fn("linear")
    ELSE IF activation_function = Str("prelu") THEN Fn("prelu")
    ELSE IF activation_function = Str("relu") THEN Fn("relu")
    ELSE IF activation_function = Str("sigmoid") THEN Fn("sigmoid")
    ELSE IF activation_function = Str("softmax") THEN Fn("softmax")
    ELSE IF activation_function = Str("step") THEN Fn("step")
    ELSE IF activation_function = Str("swish") THEN Fn("swish")
    ELSE IF activation_function = Str("tanh") THEN Fn("tanh")
    ELSE Fn("sigmoid")

(* Node.__init__ *)
Node(id, activation_function, layer) ==
    [id |-> id,
     input_sum |-> Num(0),
     output_value |-> Num(0),
     output_connections |-> <<>>,
     layer |-> layer,
     activation_function |-> activation_function]

(* Mutant of the first statement of engage: the layer test dropped. *)
EngageOutputAnyLayer(self) ==
    App(GetActivationFunction(self.activation_function).name, self.input_sum)

(* if self.layer != 0: self.output_value = activation(self.input_sum) *)
EngageOutput(self) ==
    IF self.layer # 0
    THEN App(GetActivationFunction(self.activation_function).name,
             self.input_sum)
    ELSE self.output_value

(* Mutant of the loop of engage: the enabled flag ignored. *)
RECURSIVE EngageLoopAll(_, _, _, _)
EngageLoopAll(nd, conns, i, out) ==
    IF i > Len(conns) THEN nd
    ELSE EngageLoopAll(
            [nd EXCEPT ![conns[i].to_node].input_sum =
                           Add(@, Scale(conns[i].weight, out))],
            conns, i + 1, out)

(* for c in self.output_connections:                                       *)
(*     if c.enabled: c.to_node.input_sum += c.weight * self.output_value   *)
RECURSIVE EngageLoop(_, _, _, _)
EngageLoop(nd, conns, i, out) ==
    IF i > Len(conns) THEN nd
    ELSE EngageLoop(
            IF conns[i].enabled
            THEN [nd EXCEPT ![conns[i].to_node].input_sum =
                                Add(@, Scale(conns[i].weight, out))]
            ELSE nd,
            conns, i + 1, out)

InputSums == [m \in DOMAIN node |-> node[m].input_sum]

(* Node.engage *)
Engage(n) ==
    /\ steps < MaxSteps
    /\ LET out == EngageOutput(node[n])
       IN  node' = EngageLoop([node EXCEPT ![n].output_value = out],
                              node[n].output_connections, 1, out)
    /\ pass' = [pass EXCEPT !.order = Append(@, n)]
    /\ last_op' = [op |-> "engage", n |-> n, pre |-> node[n], sums |-> InputSums]
    /\ steps' = steps + 1
    /\ UNCHANGED config
    /\ UNCHANGED <<histVars, population>>

(* uniform(low, high) on the integer grid *)
Uniform(low, high) == IF low <= high THEN low..high ELSE high..low

(* normal(mean, stdev) / 50 on the integer grid *)
Deltas == (0 - MaxDelta)..MaxDelta

(* Mutant of the clamp: the lower bound forgotten. *)
ClampUpperOnly(v, cfg) ==
    IF v.c > cfg.bias_max_value THEN Num(cfg.bias_max_value) ELSE v

(* if v > bias_max_value: v = bias_max_value                               *)
(* if v < bias_min_value: v = bias_min_value                               *)
Clamp(v, cfg) ==
    LET v1 == IF v.c > cfg.bias_max_value THEN Num(cfg.bias_max_value) ELSE v
    IN  IF v1.c < cfg.bias_min_value THEN Num(cfg.bias_min_value) ELSE v1

(* The branches of "if is_bias_node:" that fire, r1 and r2 the outcomes of *)
(* random() < bias_replace_rate and random() < bias_mutate_rate.           *)
BiasBranches(is_bias_node, r1, r2) ==
    IF is_bias_node
    THEN IF r1 THEN {"replace"}
         ELSE IF r2 THEN {"perturb"}
         ELSE {}
    ELSE {}

(* The draws mutate makes: uniform() only in the replace branch, normal()  *)
(* only in the perturb branch, choice() only when the activation mutates.  *)
UniformDraws(fired, cfg) ==
    IF "replace" \in fired
    THEN Uniform(cfg.bias_min_value, cfg.bias_max_value)
    ELSE {0}

NormalDraws(fired) == IF "perturb" \in fired THEN Deltas ELSE {0}

ChoiceDraws(r3) == IF r3 THEN ActivationNames ELSE {"sigmoid"}

(* Node.mutate(config, is_bias_node): r1, r2 and r3 are the outcomes of the *)
(* three tests random() < rate, u the uniform draw, d the Gaussian step and *)
(* f the name drawn by choice.  is_bias_node is passed for the bias node, a *)
(* node of layer 0, whose output_value engage never writes; a genome        *)
(* mutates each of its nodes once.                                          *)
Mutate(n, is_bias_node, r1, r2, r3) ==
    /\ steps < MaxSteps
    /\ n \notin pass.mutated
    /\ is_bias_node => node[n].layer = 0
    /\ LET self  == node[n]
           fired == BiasBranches(is_bias_node, r1, r2)
       IN  \E u \in UniformDraws(fired, config), d \in NormalDraws(fired),
              f \in ChoiceDraws(r3) :
              LET out1 == IF "replace" \in fired THEN Num(u)
                          ELSE self.output_value
                  out2 == IF "perturb" \in fired
                          THEN Clamp(Add(out1, Num(d)), config)
                          ELSE out1
                  act  == IF r3 THEN GetActivationFunction(Str(f))
                          ELSE self.activation_function
              IN  /\ node' = [node EXCEPT ![n].output_value = out2,
                                          ![n].activation_function = act]
                  /\ last_op' = [op |-> "mutate", n |-> n, pre |-> self,
                                 is_bias_node |-> is_bias_node,
                                 fired |-> fired]
    /\ pass' = [pass EXCEPT !.mutated = @ \cup {n}]
    /\ steps' = steps + 1
    /\ UNCHANGED config
    /\ UNCHANGED <<histVars, population>>

-----------------------------------------------------------------------------
(* SpecNode: a node of layer 0 or 1 built with any activation name, wired  *)
(* to a node of layer 2 by an enabled and a disabled connection; both are  *)
(* engaged and mutated in any order.                                       *)

Configs ==
    {[bias_min_value |-> a, bias_max_value |-> MaxBias] : a \in {0 - MaxBias, 0}}

InitNode ==
    /\ \E f \in ActivationNames, l \in {0, 1} :
          node = [n \in {1, 2} |->
                    IF n = 1
                    THEN [Node(1, Str(f), l) EXCEPT
                            !.output_connections =
                                <<ConnectionGene(1, 2, 2, 1, TRUE),
                                  ConnectionGene(1, 2, 1, 2, FALSE)>>]
                    ELSE Node(2, Str("sigmoid"), 2)]
    /\ config \in Configs
    /\ pass = [zeroed |-> TRUE, order |-> <<>>, mutated |-> {}]
    /\ last_op = None
    /\ steps = 0
    /\ HistIdle
    /\ PopIdle

NextNode ==
    \/ \E n \in DOMAIN node : Engage(n)
    \/ \E n \in DOMAIN node, is_bias_node \in BOOLEAN,
          r1 \in BOOLEAN, r2 \in BOOLEAN, r3 \in BOOLEAN :
          Mutate(n, is_bias_node, r1, r2, r3)

SpecNode == InitNode /\ [][NextNode]_vars

-----------------------------------------------------------------------------
(* Drawn networks: three nodes, node 1 on layer 0, nodes 2 and 3 on equal  *)
(* or different layers, and up to MaxConns connection genes between any    *)
(* two of them, forward or backward, enabled or disabled, at most one per  *)
(* ordered pair.  A gene is stored in the output_connections of its        *)
(* from_node.                                                              *)

NetNodes == {1, 2, 3}

Weights == {0 - 1, 2}

Layerings ==
    {[n \in NetNodes |-> IF n = 1 THEN 0 ELSE IF n = 2 THEN a ELSE b] :
        a \in {0, 1}, b \in {1, 2}}

CandGenes ==
    {ConnectionGene(p[1], p[2], w, 10 * p[1] + p[2], en) :
        p \in {q \in NetNodes \X NetNodes : q[1] # q[2]},
        w \in Weights, en \in BOOLEAN}

RECURSIVE SubsetsUpTo(_, _)
SubsetsUpTo(S, k) ==
    IF k = 0 THEN {{}}
    ELSE LET smaller == SubsetsUpTo(S, k - 1)
         IN  smaller \cup {s \cup {x} : s \in smaller, x \in S}

Wirings ==
    {S \in SubsetsUpTo(CandGenes, MaxConns) :
        \A g \in S, h \in S :
            (g.from_node = h.from_node /\ g.to_node = h.to_node) => g = h}

RECURSIVE SeqOf(_)
SeqOf(S) ==
    IF S = {} THEN <<>>
    ELSE LET g == CHOOSE x \in S : \A y \in S : x.innovation_nb <= y.innovation_nb
         IN  <<g>> \o SeqOf(S \ {g})

Network(layers, wiring) ==
    [n \in NetNodes |->
        [Node(n, Str("tanh"), layers[n]) EXCEPT
            !.output_connections = SeqOf({g \in wiring : g.from_node = n})]]

InitNet ==
    /\ \E layers \in Layerings, wiring \in Wirings :
          node = Network(layers, wiring)
    /\ config = None
    /\ pass = [zeroed |-> TRUE, order |-> <<>>, mutated |-> {}]
    /\ last_op = None
    /\ steps = 0
    /\ HistIdle
    /\ PopIdle

(* Mutant of is_connected_to: the layer comparison reversed, so that the   *)
(* connections of the higher-layer node are searched.                      *)
IsConnectedToReversed(self, other) ==
    IF node[other].layer = node[self].layer THEN FALSE
    ELSE IF node[other].layer > node[self].layer
         THEN \E k \in 1..Len(node[other].output_connections) :
                 node[other].output_connections[k].to_node = self
         ELSE \E k \in 1..Len(node[self].output_connections) :
                 node[self].output_connections[k].to_node = other

(* Node.is_connected_to(self, node): nodes are compared as objects. *)
IsConnectedTo(self, other) ==
    IF node[other].layer = node[self].layer THEN FALSE
    ELSE IF node[other].layer < node[self].layer
         THEN \E k \in 1..Len(node[other].output_connections) :
                 node[other].output_connections[k].to_node = self
         ELSE \E k \in 1..Len(node[self].output_connections) :
                 node[self].output_connections[k].to_node = other

CallIsConnectedTo(a, b) ==
    /\ last_op' = [op |-> "is_connected_to", n |-> a, other |-> b,
                   result |-> IsConnectedTo(a, b)]
    /\ UNCHANGED <<node, config, pass, steps>>
    /\ UNCHANGED <<histVars, population>>

NextConnected == \E a \in DOMAIN node, b \in DOMAIN node : CallIsConnectedTo(a, b)

SpecConnected == InitNet /\ [][NextConnected]_vars

-----------------------------------------------------------------------------
(* SpecFeed: evaluation passes.  A pass starts as Genome.feed_forward      *)
(* does, setting the outputs of the layer-0 nodes from the input vector    *)
(* and resetting the accumulators of the other nodes; the nodes are then   *)
(* engaged in any order, any number of times.                              *)

InputVectors == {[n \in NetNodes |-> n]}

BeginFeedForward(inputs) ==
    /\ last_op.op # "feed_forward"
    /\ node' = [n \in DOMAIN node |->
                  IF node[n].layer = 0
                  THEN [node[n] EXCEPT !.output_value = Num(inputs[n])]
                  ELSE [node[n] EXCEPT !.input_sum = Num(0)]]
    /\ pass' = [pass EXCEPT
                  !.zeroed = \A n \in DOMAIN node : node'[n].input_sum = Num(0),
                  !.order = <<>>]
    /\ last_op' = [op |-> "feed_forward"]
    /\ UNCHANGED <<config, steps>>
    /\ UNCHANGED <<histVars, population>>

NextFeed ==
    \/ \E inputs \in InputVectors : BeginFeedForward(inputs)
    \/ \E n \in DOMAIN node : Engage(n)

SpecFeed == InitNet /\ [][NextFeed]_vars

-----------------------------------------------------------------------------
(* SpecPopulation: the culling and reproduction phases of Population, as   *)
(* the design document and tests/test_population.py describe them.  The    *)
(* species list is in the order sort_species leaves it, best fitness       *)
(* first; each phase may be called on any list, as the tests do.           *)

Stagnations == {0, 1, 2}

Fitnesses == {0, 1, 4}

PopConfigs ==
    {[population_size |-> n, species_elitism |-> e,
      max_stagnation |-> 1, bad_species_threshold |-> 1] :
        n \in 1..MaxPop, e \in {0, 1, 2}}

(* A species: its rank at the draw names it. *)
Species(i, stagnation, average_fitness) ==
    [id |-> i, best_fitness |-> MaxSpecies + 1 - i,
     stagnation |-> stagnation, average_fitness |-> average_fitness]

SpeciesLists ==
    UNION {{[i \in 1..k |-> Species(i, st[i], af[i])] :
               st \in [1..k -> Stagnations], af \in [1..k -> Fitnesses]} :
           k \in 0..MaxSpecies}

(* Population(config): population_size genomes, generation 0; the species  *)
(* are those a speciation of an evaluated population may leave, at most    *)
(* one per genome.                                                         *)
InitPopulation ==
    /\ config \in PopConfigs
    /\ \E sp \in SpeciesLists :
          /\ Len(sp) <= config.population_size
          /\ population = [genomes |-> [k \in 1..config.population_size |-> 0],
                           species |-> sp,
                           generation |-> 0]
    /\ last_op = None
    /\ steps = 0
    /\ node = <<>>
    /\ pass = None
    /\ HistIdle

(* Mutant of the stagnation cull: the elite species are not protected. *)
RECURSIVE StagnantLoopNoElitism(_, _, _)
StagnantLoopNoElitism(species, i, cfg) ==
    IF i > Len(species) THEN <<>>
    ELSE (IF species[i].stagnation > cfg.max_stagnation
          THEN <<>> ELSE <<species[i]>>)
         \o StagnantLoopNoElitism(species, i + 1, cfg)

(* kill_stagnant_species: the species after the first species_elitism are  *)
(* removed when their stagnation exceeds max_stagnation.                   *)
RECURSIVE StagnantLoop(_, _, _)
StagnantLoop(species, i, cfg) ==
    IF i > Len(species) THEN <<>>
    ELSE (IF i > cfg.species_elitism /\ species[i].stagnation > cfg.max_stagnation
          THEN <<>> ELSE <<species[i]>>)
         \o StagnantLoop(species, i + 1, cfg)

KillStagnantSpecies ==
    /\ population' = [population EXCEPT
                         !.species = StagnantLoop(population.species, 1, config)]
    /\ last_op' = [op |-> "kill_stagnant_species", pre |-> population]
    /\ UNCHANGED <<node, config, pass, steps>>
    /\ UNCHANGED histVars

(* kill_bad_species: the species whose average fitness is below            *)
(* bad_species_threshold are removed.                                      *)
RECURSIVE BadLoop(_, _, _)
BadLoop(species, i, cfg) ==
    IF i > Len(species) THEN <<>>
    ELSE (IF species[i].average_fitness < cfg.bad_species_threshold
          THEN <<>> ELSE <<species[i]>>)
         \o BadLoop(species, i + 1, cfg)

KillBadSpecies ==
    /\ population' = [population EXCEPT
                         !.species = BadLoop(population.species, 1, config)]
    /\ last_op' = [op |-> "kill_bad_species", pre |-> population]
    /\ UNCHANGED <<node, config, pass, steps>>
    /\ UNCHANGED histVars

(* reset_on_extinction: with no species left, a new random population. *)
ResetOnExtinction ==
    /\ population.species = <<>>
    /\ population' = [population EXCEPT
                         !.genomes = [k \in 1..config.population_size |-> 0]]
    /\ last_op' = [op |-> "reset_on_extinction", pre |-> population]
    /\ UNCHANGED <<node, config, pass, steps>>
    /\ UNCHANGED histVars

RECURSIVE FitnessSum(_, _)
FitnessSum(species, i) ==
    IF i > Len(species) THEN 0
    ELSE species[i].average_fitness + FitnessSum(species, i + 1)

(* The offspring of species i: its share of the total average fitness      *)
(* times population_size, rounded down, and at least one.                  *)
Offspring(species, i, cfg) ==
    LET total == FitnessSum(species, 1)
        share == IF total > 0
                 THEN (species[i].average_fitness * cfg.population_size) \div total
                 ELSE 0
    IN  IF share < 1 THEN 1 ELSE share

(* The children, species by species; a child is named by its species. *)
RECURSIVE Children(_, _, _)
Children(species, i, cfg) ==
    IF i > Len(species) THEN <<>>
    ELSE [k \in 1..Offspring(species, i, cfg) |-> species[i].id]
         \o Children(species, i + 1, cfg)

(* When the rounding leaves fewer children than population_size, the best  *)
(* species breeds the rest (the tests expect population_size genomes from  *)
(* one species whatever its fitness).                                      *)
TopUp(children, species, cfg) ==
    IF Len(children) < cfg.population_size
    THEN children \o [k \in 1..(cfg.population_size - Len(children)) |->
                         species[1].id]
    ELSE children

(* reproduce_species *)
ReproduceSpecies ==
    /\ population.generation < MaxGeneration
    /\ Len(population.species) >= 1
    /\ population' = [population EXCEPT
                         !.genomes = TopUp(Children(population.species, 1, config),
                                           population.species, config),
                         !.generation = @ + 1]
    /\ last_op' = [op |-> "reproduce_species", pre |-> population]
    /\ UNCHANGED <<node, config, pass, steps>>
    /\ UNCHANGED histVars

NextPopulation ==
    \/ KillStagnantSpecies
    \/ KillBadSpecies
    \/ ResetOnExtinction
    \/ ReproduceSpecies

SpecPopulation == InitPopulation /\ [][NextPopulation]_vars

-----------------------------------------------------------------------------
(* Claims on the innovation registry *)

(* C1: matches returns true exactly when the genome has as many genes as   *)
(* the entry has stored numbers, the candidate endpoints have the ids of   *)
(* the stored endpoints, and every gene's innovation number is in the      *)
(* stored list; in every other case it returns false.                      *)
C1_MatchesIff ==
    last_call.op = "matches" =>
        (last_call.result <=>
            /\ Len(last_call.genes) = Len(last_call.self.innovation_nbs)
            /\ last_call.from_node.id = last_call.self.from_node.id
            /\ last_call.to_node.id = last_call.self.to_node.id
            /\ \A k \in 1..Len(last_call.genes) :
                   last_call.genes[k].innovation_nb
                       \in Range(last_call.self.innovation_nbs))

(* A match on ids between different node objects, with a non-empty genome. *)
C1_Witness ==
    /\ last_call.op = "matches"
    /\ last_call.result
    /\ last_call.from_node # last_call.self.from_node
    /\ Len(last_call.genes) = MaxLen

(* C2: two innovation events with the same endpoint ids and the same set   *)
(* of innovation numbers in the mutating genome received the same number,  *)
(* and the registry holds no two entries with the same endpoint ids and    *)
(* the same set of stored numbers but different innovation numbers.        *)
C2_SameEventSameNumber ==
    /\ \A e1 \in events, e2 \in events :
           (e1.from_id = e2.from_id /\ e1.to_id = e2.to_id
                /\ e1.context = e2.context)
               => e1.innovation_nb = e2.innovation_nb
    /\ \A i \in 1..Len(innovation_history), j \in 1..Len(innovation_history) :
           (/\ innovation_history[i].from_node.id = innovation_history[j].from_node.id
            /\ innovation_history[i].to_node.id = innovation_history[j].to_node.id
            /\ Range(innovation_history[i].innovation_nbs)
                  = Range(innovation_history[j].innovation_nbs))
               => innovation_history[i].innovation_nb
                    = innovation_history[j].innovation_nb

(* Both genomes made the same two mutations, the second in a non-empty     *)
(* context, and the registry minted only two numbers.                      *)
C2_Witness ==
    /\ Len(genomes[1]) = 2
    /\ InnovationNbs(genomes[1]) = InnovationNbs(genomes[2])
    /\ genomes[1][1].from_node.id = genomes[2][1].from_node.id
    /\ genomes[1][2].to_node.id = genomes[2][2].to_node.id
    /\ Len(innovation_history) = 2

(* C3: whenever matches returns true, the genome's innovation numbers and  *)
(* the stored numbers are the same in size and in membership, each stored  *)
(* number being the number of some gene and vice versa.                    *)
C3_MatchImpliesSameNumbers ==
    (last_call.op = "matches" /\ last_call.result) =>
        /\ Len(last_call.genes) = Len(last_call.self.innovation_nbs)
        /\ Range(InnovationNbs(last_call.genes))
              = Range(last_call.self.innovation_nbs)

-----------------------------------------------------------------------------
(* Claims on Node *)

BiasFired == last_op.fired \cap {"replace", "perturb"}

(* C4: a node of a layer other than 0 that holds a supported activation    *)
(* function f, given at construction or resampled by mutate, has           *)
(* output_value = f(input_sum) after engage.                               *)
C4_EngageAppliesHeldFunction ==
    (/\ last_op.op = "engage"
     /\ last_op.pre.layer # 0
     /\ last_op.pre.activation_function.name \in ActivationNames)
        => node[last_op.n].output_value
             = App(last_op.pre.activation_function.name, last_op.pre.input_sum)

(* C5: engage leaves the output_value of a layer-0 node as it was,         *)
(* whatever its input_sum.                                                 *)
C5_Layer0OutputKept ==
    (last_op.op = "engage" /\ last_op.pre.layer = 0)
        => node[last_op.n].output_value = last_op.pre.output_value

(* A layer-0 node with a non-zero accumulator and a non-zero output was    *)
(* engaged.                                                                *)
C5_Witness ==
    /\ last_op.op = "engage"
    /\ last_op.pre.layer = 0
    /\ last_op.pre.input_sum # Num(0)
    /\ last_op.pre.output_value # Num(0)
    /\ Len(pass.order) > 1

(* C6: a.is_connected_to(b) is true exactly when the layers differ and the *)
(* node of the lower layer holds a connection, enabled or not, to the      *)
(* other node.                                                             *)
C6_ConnectedIff ==
    last_op.op = "is_connected_to" =>
        LET a  == last_op.n
            b  == last_op.other
            lo == IF node[a].layer < node[b].layer THEN a ELSE b
            hi == IF node[a].layer < node[b].layer THEN b ELSE a
        IN  last_op.result <=>
               /\ node[a].layer # node[b].layer
               /\ \E g \in Range(node[lo].output_connections) : g.to_node = hi

(* The higher-layer node asks; the only connection between the two is a    *)
(* disabled one held by the lower-layer node, and the answer is true.      *)
C6_Witness ==
    /\ last_op.op = "is_connected_to"
    /\ last_op.result
    /\ node[last_op.n].layer > node[last_op.other].layer
    /\ \A g \in Range(node[last_op.other].output_connections) :
          g.to_node = last_op.n => ~g.enabled
    /\ \E g \in Range(node[last_op.n].output_connections) :
          g.to_node = last_op.other

(* C7: with bias_min_value <= bias_max_value, a mutate of the bias node in *)
(* which the replace or the perturb branch fired leaves output_value       *)
(* within the bounds; at most one of the two fires; a mutate with          *)
(* is_bias_node false leaves output_value unchanged.                       *)
C7_BiasWithinBounds ==
    last_op.op = "mutate" =>
        /\ (/\ last_op.is_bias_node
            /\ BiasFired # {}
            /\ config.bias_min_value <= config.bias_max_value)
              => /\ IsNum(node[last_op.n].output_value)
                 /\ config.bias_min_value <= node[last_op.n].output_value.c
                 /\ node[last_op.n].output_value.c <= config.bias_max_value
        /\ Cardinality(BiasFired) <= 1
        /\ ~last_op.is_bias_node
              => node[last_op.n].output_value = last_op.pre.output_value

(* The perturb branch fired and the step was clamped to the lower bound. *)
C7_Witness ==
    /\ last_op.op = "mutate"
    /\ last_op.fired = {"perturb"}
    /\ node[last_op.n].output_value = Num(config.bias_min_value)
    /\ last_op.pre.output_value # node[last_op.n].output_value

-----------------------------------------------------------------------------
(* Claims on evaluation passes *)

(* Every connection goes to a node of a strictly higher layer. *)
ForwardOnly ==
    \A m \in DOMAIN node : \A g \in Range(node[m].output_connections) :
        node[g.to_node].layer > node[m].layer

(* The engagements since the reset form the beginning of a pass in         *)
(* ascending layer order: no node twice, layers never decreasing, and      *)
(* every node below the layer of the last one engaged.                     *)
AscendingPass(order) ==
    /\ \A i \in 1..Len(order), j \in 1..Len(order) :
          /\ (i # j => order[i] # order[j])
          /\ (i < j => node[order[i]].layer <= node[order[j]].layer)
    /\ \A m \in DOMAIN node :
          node[m].layer < node[order[Len(order)]].layer => m \in Range(order)

(* The sum of weight * out over the enabled genes of conns that go to n. *)
RECURSIVE SumInto(_, _, _, _)
SumInto(conns, i, n, out) ==
    IF i > Len(conns) THEN Num(0)
    ELSE Add(IF conns[i].enabled /\ conns[i].to_node = n
             THEN Scale(conns[i].weight, out)
             ELSE Num(0),
             SumInto(conns, i + 1, n, out))

(* The sum of weight * output_value over the enabled connections into n. *)
RECURSIVE EnabledInputSum(_, _)
EnabledInputSum(S, n) ==
    IF S = {} THEN Num(0)
    ELSE LET m == CHOOSE x \in S : TRUE
         IN  Add(SumInto(node[m].output_connections, 1, n, node[m].output_value),
                 EnabledInputSum(S \ {m}, n))

(* C10: in a network whose connections all go to a higher layer, when the  *)
(* accumulators were zero and the nodes are engaged once each in ascending *)
(* layer order, the input_sum a node has when it is engaged is the sum of  *)
(* weight * output_value over the enabled connections into it; and an      *)
(* engagement only adds weight * output_value to the accumulators of its   *)
(* enabled connections' targets, resetting none.                           *)
C10_InputSumAtEngage ==
    last_op.op = "engage" =>
        /\ (ForwardOnly /\ pass.zeroed /\ AscendingPass(pass.order))
              => last_op.pre.input_sum = EnabledInputSum(DOMAIN node, last_op.n)
        /\ \A m \in DOMAIN node :
              node[m].input_sum
                = Add(last_op.sums[m],
                      SumInto(last_op.pre.output_connections, 1, m,
                              node[last_op.n].output_value))

(* The last node of a complete ascending pass has an enabled and a         *)
(* disabled connection into it and was engaged with a non-zero sum.        *)
C10_Witness ==
    /\ last_op.op = "engage"
    /\ ForwardOnly /\ pass.zeroed /\ AscendingPass(pass.order)
    /\ Range(pass.order) = DOMAIN node
    /\ last_op.pre.input_sum # Num(0)
    /\ \E m \in DOMAIN node : \E g \in Range(node[m].output_connections) :
          g.to_node = last_op.n /\ g.enabled
    /\ \E m \in DOMAIN node : \E g \in Range(node[m].output_connections) :
          g.to_node = last_op.n /\ ~g.enabled

-----------------------------------------------------------------------------
(* Claims on Population *)

(* The species of s are species of t, in the order they have in t. *)
KeepsOrder(s, t) ==
    /\ \A i \in 1..Len(s) : s[i] \in Range(t)
    /\ \A i \in 1..Len(s), j \in 1..Len(s) : i < j => s[i].id < s[j].id

(* C8: after kill_bad_species no species has an average fitness below the  *)
(* threshold; after kill_stagnant_species no species past the first        *)
(* species_elitism has a stagnation above max_stagnation and the first     *)
(* species_elitism species are all still there; the survivors keep their   *)
(* order.                                                                  *)
C8_Culling ==
    /\ last_op.op = "kill_bad_species" =>
          /\ \A i \in 1..Len(population.species) :
                population.species[i].average_fitness
                    >= config.bad_species_threshold
          /\ KeepsOrder(population.species, last_op.pre.species)
    /\ last_op.op = "kill_stagnant_species" =>
          /\ \A i \in 1..Len(population.species) :
                i > config.species_elitism
                    => population.species[i].stagnation <= config.max_stagnation
          /\ \A i \in 1..Len(last_op.pre.species) :
                i <= config.species_elitism
                    => /\ i <= Len(population.species)
                       /\ population.species[i] = last_op.pre.species[i]
          /\ KeepsOrder(population.species, last_op.pre.species)

(* A stagnant elite species survived a cull that removed a stagnant        *)
(* species and kept a species after it.                                    *)
C8_Witness ==
    /\ last_op.op = "kill_stagnant_species"
    /\ config.species_elitism = 1
    /\ Len(last_op.pre.species) = 3
    /\ Len(population.species) = 2
    /\ population.species[1].stagnation > config.max_stagnation
    /\ population.species[2].id = 3

(* C9: a reproduce_species on a population with at least one species adds  *)
(* one to generation and leaves population_size genomes.                   *)
C9_ReproduceKeepsSize ==
    (last_op.op = "reproduce_species" /\ Len(last_op.pre.species) >= 1)
        => /\ population.generation = last_op.pre.generation + 1
           /\ Len(population.genomes) = config.population_size

(* C11: a registry entry is a snapshot.  Whatever its caller does to the   *)
(* list it passed afterwards, the entry holds the numbers it was built     *)
(* with; a call of matches returns with the registry, the lists and the    *)
(* genomes as they were; and the last call of matches would return the     *)
(* same result if it were made now with the same gene list and endpoints.  *)
C11_EntryIsSnapshot ==
    /\ \A e \in events :
          e.op = "init" => EntryOf(lists, innovation_history[e.i]) = e.self
    /\ (last_call.op = "matches" /\ last_call.returned)
          => /\ innovation_history = last_call.pre.innovation_history
             /\ lists = last_call.pre.lists
             /\ genomes = last_call.pre.genomes
    /\ last_call.op = "matches"
          => Matches(EntryOf(lists, innovation_history[last_call.i]),
                     last_call.genes, last_call.from_node, last_call.to_node)
                = last_call.result

(* An entry on which matches returned True, whose caller has since changed *)
(* the list it passed and gained a gene.                                   *)
C11_Witness ==
    /\ last_call.op = "matches" /\ ~last_call.returned /\ last_call.result
    /\ \E e \in events :
          /\ e.op = "init" /\ e.i = last_call.i
          /\ lists[e.arg] # e.self.innovation_nbs
          /\ Len(genomes[e.arg]) > Len(last_call.genes)

=============================================================================
